---- MODULE Spec2Model ----
(***************************************************************************)
(* Version-tracked incremental analysis pipeline: the version store        *)
(* (version-tracker), the incremental review route, the single-pass        *)
(* analyzer of the code-review route, the multi-dimensional analyzer and   *)
(* its dimension scores.                                                   *)
(*                                                                         *)
(* A content is the list of lines content.split('\n') yields (never        *)
(* empty); a line is one of the concrete texts of Lines.                   *)
(***************************************************************************)
EXTENDS Integers, Sequences, FiniteSets, TLC

VARIABLES
    fileVersions,   \* prisma.fileVersion: the rows, in creation order
    reviews,        \* prisma.review: the rows, in creation order
    blob,           \* the S3 bucket: object key -> content, or NoBlob
    call,           \* storeFileVersion calls in flight, one per caller
    lastResult,     \* what the most recent storeFileVersion call returned
    inc,            \* the invocation of POST /api/code-review/incremental
    flt,            \* one application of the incremental filter
    sc,             \* one analysis object passed to calculateScores
    md,             \* one run of analyzeCodeMultiDimensional
    fa,             \* the invocation of POST /api/folder-analysis
    rq              \* the last request to a route that only reads

vars == <<fileVersions, reviews, blob, call, lastResult, inc, flt, sc,
          md, fa, rq>>

----------------------------------------------------------------------------
(* Bounds *)

MaxLines == 4       \* lines per content
MaxVersions == 3    \* storeFileVersion calls started in one behaviour
MaxRows == 2        \* rows of fileVersions when an incremental review starts
MaxAnalyzedLines == 3   \* lines per content given to the multi-dimensional analyzer
MaxSaves == 2       \* editor saves in flight or stored in one behaviour
MaxPathLength == 3  \* characters of a folderPath

----------------------------------------------------------------------------
(* Data *)

Users == {"u1"}
FileKeys == {"u1/a.js", "u1/b.json"}
Procs == {1, 2}
Lines == {"f();", "var x = 1;"}

\* The line texts given to the multi-dimensional analyzer
VarLine == "var x = 1"
BranchLine == "if (x == 1) { console.log(x) }"
EmptyLine == ""
NestedEvalLine == "                          eval(s); // TODO"
FunctionLine == "function f() {}"
\* '[' so many times over that the parser's recursion exhausts the call stack
DeepBrackets == "[[[[...[[[["

\* 'a?b:' sixty times over, then 'c': sixty matches of the branching pattern
TernaryChain == "a?b:a?b:...a?b:c"

AnalyzedLines == {VarLine, BranchLine, EmptyLine, NestedEvalLine,
                  FunctionLine, DeepBrackets}

NoBlob == <<>>     \* no object under the key
None == "None"

\* findFirst found no row (null)
NoVersion == [id |-> 0, userId |-> None, fileKey |-> None, fileName |-> None,
              version |-> 0, content |-> <<>>, hash |-> 0, size |-> 0]

\* no call has returned yet
NoResult == [fileKey |-> None, changed |-> FALSE, version |-> 0]

Contents == UNION {[1..n -> Lines] : n \in 1..MaxLines}
AnalyzedContents ==
    UNION {[1..n -> AnalyzedLines] : n \in 1..MaxAnalyzedLines}
OneLiners == {c \in Contents : Len(c) = 1}

\* fileKey.split('/').pop()
NameOf(fileKey) ==
    CASE fileKey = "u1/a.js" -> "a.js"
      [] fileKey = "u1/b.json" -> "b.json"

\* fileName.split('.').pop().toLowerCase()
ExtensionOf(fileName) ==
    CASE fileName = "a.js" -> "js"
      [] fileName = "b.json" -> "json"

\* line.length of each line text
LineLength(line) ==
    CASE line = "f();" -> 4
      [] line = "var x = 1;" -> 10
      [] line = VarLine -> 9
      [] line = BranchLine -> 30
      [] line = EmptyLine -> 0
      [] line = NestedEvalLine -> 42
      [] line = FunctionLine -> 15
      [] line = DeepBrackets -> 100000
      [] line = TernaryChain -> 241

RECURSIVE SumLengths(_)
SumLengths(content) ==
    IF content = <<>> THEN 0
    ELSE LineLength(Head(content)) + SumLengths(Tail(content))

\* Buffer.byteLength(content, 'utf-8'): the lines and the newlines between them
ByteLength(content) == SumLengths(content) + (Len(content) - 1)

\* Position of a line text in the digest's alphabet
LineCode(line) ==
    CASE line = "f();" -> 1
      [] line = "var x = 1;" -> 2
      [] line = EmptyLine -> 0
      [] line = VarLine -> 3
      [] line = BranchLine -> 4
      [] line = NestedEvalLine -> 5
      [] line = FunctionLine -> 6
      [] line = DeepBrackets -> 7
      [] line = TernaryChain -> 8

HashBase == Cardinality(Lines \cup AnalyzedLines) + 2

\* createHash('sha256').update(content).digest('hex'): a digest that tells
\* any two contents of the model apart and is not the content itself
RECURSIVE generateContentHash(_)
generateContentHash(content) ==
    IF content = <<>> THEN 1
    ELSE generateContentHash(SubSeq(content, 1, Len(content) - 1)) * HashBase
         + LineCode(content[Len(content)])

----------------------------------------------------------------------------
(* prisma.fileVersion queries *)

RowsOf(table, fileKey) == SelectSeq(table, LAMBDA r : r.fileKey = fileKey)

\* (a slip: orderBy version asc)
RECURSIVE MinVersionRow(_)
MinVersionRow(rows) ==
    IF Len(rows) = 1 THEN rows[1]
    ELSE LET rest == MinVersionRow(Tail(rows))
         IN IF rows[1].version <= rest.version THEN rows[1] ELSE rest

\* orderBy: { version: 'desc' } then the first row: a row of the greatest
\* version (of rows of equal version, for which the database promises no
\* order, the one stored first)
RECURSIVE MaxVersionRow(_)
MaxVersionRow(rows) ==
    IF Len(rows) = 1 THEN rows[1]
    ELSE LET rest == MaxVersionRow(Tail(rows))
         IN IF rows[1].version >= rest.version THEN rows[1] ELSE rest

\* (a slip: the where clause is forgotten)
getLatestOfAnyKey(table, fileKey) ==
    IF table = <<>> THEN NoVersion ELSE MaxVersionRow(table)

\* prisma.fileVersion.findFirst({ where: { fileKey }, orderBy: { version: 'desc' } })
getLatestFileVersion(table, fileKey) ==
    IF RowsOf(table, fileKey) = <<>> THEN NoVersion
    ELSE MaxVersionRow(RowsOf(table, fileKey))

\* (a slip: the increment skips a number)
NewVersionSkips(latestVersion) ==
    IF latestVersion = NoVersion THEN 1 ELSE latestVersion.version + 2

\* (latestVersion?.version || 0) + 1
NewVersion(latestVersion) ==
    IF latestVersion = NoVersion THEN 1 ELSE latestVersion.version + 1

\* latestVersion && latestVersion.hash === hash
Unchanged(latestVersion, hash) ==
    latestVersion # NoVersion /\ latestVersion.hash = hash

\* (a slip: the latest row is written over)
CreateRowOverwrites(table, userId, fileKey, version, content, hash, size) ==
    SubSeq(table, 1, Len(table) - 1)
    \o <<[id |-> IF table = <<>> THEN 1 ELSE Len(table), userId |-> userId,
          fileKey |-> fileKey, fileName |-> NameOf(fileKey),
          version |-> version, content |-> content,
          hash |-> hash, size |-> size]>>

\* prisma.fileVersion.create({ data }): the row gets a fresh id
CreateRow(table, userId, fileKey, version, content, hash, size) ==
    Append(table, [id |-> Len(table) + 1, userId |-> userId,
                   fileKey |-> fileKey, fileName |-> NameOf(fileKey),
                   version |-> version, content |-> content,
                   hash |-> hash, size |-> size])

----------------------------------------------------------------------------
(* storeFileVersion(userId, fileKey, fileName, content) *)

IdleCall == [pc |-> "idle", userId |-> None, fileKey |-> None,
             content |-> <<>>, newVersion |-> 0]

\* no review request, no filter applied, no analysis scored or run, no folder
\* analysis, no reading request
IncIdle == [pc |-> "none"]
NoFilter == [pc |-> "none"]
NoScores == [pc |-> "none"]
NoAnalysis == [pc |-> "none"]
NoFolder == [pc |-> "none"]
NoRequest == [pc |-> "none"]

\* calls started so far: rows written, calls between read and create
Started == Len(fileVersions)
           + Cardinality({p \in Procs : call[p].pc = "create"})

\* The call up to its first DB write: hash, findFirst, the comparison. An
\* unchanged content returns here; otherwise the create is still to come.
StoreRead(p, userId, fileKey, content) ==
    /\ call[p].pc = "idle"
    /\ Started < MaxVersions
    /\ LET hash == generateContentHash(content)
           latestVersion == getLatestFileVersion(fileVersions, fileKey)
       IN IF Unchanged(latestVersion, hash)
          THEN /\ lastResult' = [fileKey |-> fileKey, changed |-> FALSE,
                                 version |-> latestVersion.version]
               /\ call' = call
          ELSE /\ call' = [call EXCEPT ![p] =
                              [pc |-> "create", userId |-> userId,
                               fileKey |-> fileKey, content |-> content,
                               newVersion |-> NewVersion(latestVersion)]]
               /\ lastResult' = lastResult
    /\ UNCHANGED <<fileVersions, reviews, blob, inc, flt, sc, md, fa, rq>>

\* prisma.fileVersion.create and the return of { changed: true, version }
StoreCreate(p) ==
    /\ call[p].pc = "create"
    /\ fileVersions' = CreateRow(fileVersions, call[p].userId, call[p].fileKey,
                                 call[p].newVersion, call[p].content,
                                 generateContentHash(call[p].content),
                                 ByteLength(call[p].content))
    /\ lastResult' = [fileKey |-> call[p].fileKey, changed |-> TRUE,
                      version |-> call[p].newVersion]
    /\ call' = [call EXCEPT ![p] = IdleCall]
    /\ UNCHANGED <<reviews, blob, inc, flt, sc, md, fa, rq>>

StoreInit ==
    /\ fileVersions = <<>>
    /\ reviews = <<>>
    /\ blob = [k \in FileKeys |-> NoBlob]
    /\ call = [p \in Procs |-> IdleCall]
    /\ lastResult = NoResult
    /\ md = NoAnalysis
    /\ fa = NoFolder
    /\ rq = NoRequest
    /\ inc = IncIdle
    /\ flt = NoFilter
    /\ sc = NoScores

\* Calls that interleave at their awaits
Init == StoreInit

Next ==
    \/ \E p \in Procs, u \in Users, k \in FileKeys, c \in OneLiners :
           StoreRead(p, u, k, c)
    \/ \E p \in Procs : StoreCreate(p)

Spec == Init /\ [][Next]_vars

\* Calls that run one at a time: a call starts when no other is in flight
SeqNext ==
    \/ \E p \in Procs, u \in Users, k \in FileKeys, c \in OneLiners :
           /\ \A q \in Procs : call[q].pc = "idle"
           /\ StoreRead(p, u, k, c)
    \/ \E p \in Procs : StoreCreate(p)

SeqSpec == Init /\ [][SeqNext]_vars

----------------------------------------------------------------------------
(* analyzeCode(content, fileName): the analyzer of the code-review route *)

FileNames == {NameOf(k) : k \in FileKeys}

\* line.endsWith(' ') || line.endsWith('\t')
HasTrailingWhitespace(line) == FALSE

\* line.match(/console\.(log|debug|info|warn|error)/)
HasConsole(line) == FALSE

\* line.match(/\bvar\s+/)
HasVar(line) == line \in {"var x = 1;", VarLine}

\* line.match(/[^=!><]={2}[^=]/) && !line.includes('===')
HasLooseEquality(line) == FALSE

\* the "possibly missing semicolon" test: no line of Lines fails to end in ';'
MissesSemicolon(line) == FALSE

\* occurrences of \bx\b in a line, x being the one variable Lines declares
OccurrencesOfX(line) ==
    CASE line = "f();" -> 0
      [] line = "var x = 1;" -> 1

RECURSIVE Occurrences(_)
Occurrences(content) ==
    IF content = <<>> THEN 0
    ELSE OccurrencesOfX(Head(content)) + Occurrences(Tail(content))

\* JSON.parse(content) succeeds: of no content over Lines
ParsesAsJSON(content) == FALSE

\* one issue per line of the content that satisfies Test, in line order
RECURSIVE LineIssues(_, _, _, _)
LineIssues(content, Test(_), issue, from) ==
    IF from > Len(content) THEN <<>>
    ELSE (IF Test(content[from]) THEN <<[issue EXCEPT !.line = from]>>
          ELSE <<>>)
         \o LineIssues(content, Test, issue, from + 1)

Issue(type, severity, message) ==
    [type |-> type, severity |-> severity, line |-> 0, message |-> message]

\* content.match(/(?:const|let|var)\s+(\w+)/g): one declaration per var line,
\* each reported at line 0 when its name occurs once in the whole content
RECURSIVE UnusedVariableIssues(_, _)
UnusedVariableIssues(content, from) ==
    IF from > Len(content) THEN <<>>
    ELSE (IF HasVar(content[from]) /\ Occurrences(content) = 1
          THEN <<Issue("quality", "info", "Variable may be unused")>>
          ELSE <<>>)
         \o UnusedVariableIssues(content, from + 1)

analyzeJavaScript(content) ==
    LineIssues(content, HasConsole,
               Issue("quality", "warning", "Console statement detected"), 1)
    \o LineIssues(content, HasVar,
                  Issue("best-practice", "warning", "Use of var keyword"), 1)
    \o LineIssues(content, HasLooseEquality,
                  Issue("best-practice", "warning", "Use of loose equality"), 1)
    \o LineIssues(content, MissesSemicolon,
                  Issue("syntax", "info", "Possibly missing semicolon"), 1)
    \o UnusedVariableIssues(content, 1)

analyzeJSON(content) ==
    IF ParsesAsJSON(content) THEN <<>>
    ELSE <<Issue("syntax", "error", "Invalid JSON")>>

CountSeverity(issues, severity) ==
    Len(SelectSeq(issues, LAMBDA i : i.severity = severity))

Max(a, b) == IF a >= b THEN a ELSE b
Min(a, b) == IF a <= b THEN a ELSE b
Abs(a) == IF a >= 0 THEN a ELSE 0 - a

\* calculateMetrics(content, lines, issues) of the code-review route
calculateReviewMetrics(content, issues) ==
    [totalLines |-> Len(content),
     codeLines |-> Len(content),
     commentLines |-> 0,
     blankLines |-> 0,
     errorCount |-> CountSeverity(issues, "error"),
     warningCount |-> CountSeverity(issues, "warning"),
     infoCount |-> CountSeverity(issues, "info"),
     qualityScore |-> Max(0, 100 - CountSeverity(issues, "error") * 10
                                  - CountSeverity(issues, "warning") * 3
                                  - CountSeverity(issues, "info") * 1)]

\* line.length > 120
IsLongLine(line) == LineLength(line) > 120

\* sizeInKB > 500
IsLargeFile(content) == ByteLength(content) > 500 * 1024

\* content.trim().length === 0
IsEmptyFile(content) == SumLengths(content) = 0

\* The general checks, then the checks of the file's language. Of the
\* JavaScript checks the parse by acorn, the TODO comments and the deep
\* nesting find nothing in a content over Lines.
analyzeCodeIssues(content, fileName) ==
    LineIssues(content, HasTrailingWhitespace,
               Issue("style", "info", "Trailing whitespace detected"), 1)
    \o (IF IsLargeFile(content)
        THEN <<[Issue("performance", "warning", "Large file size")
                   EXCEPT !.line = 1]>>
        ELSE <<>>)
    \o LineIssues(content, IsLongLine,
                  Issue("style", "info", "Line too long"), 1)
    \o (IF IsEmptyFile(content)
        THEN <<[Issue("quality", "warning", "File is empty")
                   EXCEPT !.line = 1]>>
        ELSE <<>>)
    \o (IF ExtensionOf(fileName) \in {"js", "jsx", "mjs", "cjs", "ts", "tsx"}
        THEN analyzeJavaScript(content)
        ELSE IF ExtensionOf(fileName) = "json"
        THEN analyzeJSON(content)
        ELSE <<>>)

analyzeCode(content, fileName) ==
    [issues |-> analyzeCodeIssues(content, fileName),
     metrics |-> calculateReviewMetrics(content,
                                        analyzeCodeIssues(content, fileName))]

----------------------------------------------------------------------------
(* analyzeCodeMultiDimensional(content, fileName): the issue lists *)

DimensionIssue(type, category, severity, message, autoFixable) ==
    [type |-> type, category |-> category, severity |-> severity, line |-> 0,
     message |-> message, autoFixable |-> autoFixable]

\* line.match(/[^=!><]={2}[^=]/)
LintsLooseEquality(line) == line = BranchLine

\* (a slip: the pattern is /console\.error/)
LintsConsoleError(line) == FALSE

\* line.match(/console\.(log|debug|info|warn)/)
LintsConsole(line) == line = BranchLine

\* acorn reports a syntax error at this line: it declares again the function
\* an earlier line declares (the source type is module, where that is an
\* error: Identifier 'f' has already been declared)
SyntaxErrorAt(content, n) ==
    /\ content[n] = FunctionLine
    /\ \E m \in 1..(n - 1) : content[m] = FunctionLine

\* the parser's recursion overflows at this line: a RangeError, which has no loc
OverflowAt(content, n) == content[n] = DeepBrackets

NoThrow == [threw |-> FALSE, hasLoc |-> FALSE, line |-> 0]

\* acorn.parse(content, ...): what it throws, if anything, is what the first
\* line it cannot get past makes it throw
RECURSIVE acornParse(_, _)
acornParse(content, from) ==
    IF from > Len(content) THEN NoThrow
    ELSE IF SyntaxErrorAt(content, from)
    THEN [threw |-> TRUE, hasLoc |-> TRUE, line |-> from]
    ELSE IF OverflowAt(content, from)
    THEN [threw |-> TRUE, hasLoc |-> FALSE, line |-> 0]
    ELSE acornParse(content, from + 1)

\* try { acorn.parse } catch (error) { if (error.loc) push }
SyntaxIssues(content) ==
    IF acornParse(content, 1).threw /\ acornParse(content, 1).hasLoc
    THEN <<[DimensionIssue("linting", "syntax", "error", "Syntax error",
                           FALSE) EXCEPT !.line = acornParse(content, 1).line]>>
    ELSE <<>>

\* var usage, loose equality, console statements, syntax validation
lintJavaScript(content) ==
    LineIssues(content, HasVar,
               DimensionIssue("linting", "best-practice", "warning",
                              "Use of deprecated var keyword", TRUE), 1)
    \o LineIssues(content, LintsLooseEquality,
                  DimensionIssue("linting", "best-practice", "warning",
                                 "Use of loose equality", TRUE), 1)
    \o LineIssues(content, LintsConsole,
                  DimensionIssue("linting", "cleanup", "info",
                                 "Console statement detected", TRUE), 1)
    \o SyntaxIssues(content)

performLintingAnalysis(content, fileExtension) ==
    LineIssues(content, HasTrailingWhitespace,
               DimensionIssue("linting", "style", "info",
                              "Trailing whitespace detected", TRUE), 1)
    \o LineIssues(content, IsLongLine,
                  DimensionIssue("linting", "style", "info",
                                 "Line too long", FALSE), 1)
    \o (IF fileExtension \in {"js", "jsx", "ts", "tsx"}
        THEN lintJavaScript(content)
        ELSE <<>>)

\* line.match(/\beval\s*\(/)
HasEval(line) == line = NestedEvalLine

\* securityCheckJavaScript: eval; no line of the model assigns innerHTML,
\* calls document.write, holds a regex with two '+' or a hardcoded secret
performSecurityAnalysis(content, fileExtension) ==
    IF fileExtension \in {"js", "jsx", "ts", "tsx"}
    THEN LineIssues(content, HasEval,
                    DimensionIssue("security", "code-injection", "critical",
                                   "Use of eval() detected", FALSE), 1)
    ELSE <<>>

\* line.search(/\S/) > 24
IsDeeplyNested(line) == line = NestedEvalLine

\* File size and deep nesting; no content of the model has more than 20
\* functions, more than 15 imports or any export
performArchitectureAnalysis(content) ==
    (IF IsLargeFile(content)
     THEN <<[DimensionIssue("architecture", "modularity", "warning",
                            "Large file size", FALSE) EXCEPT !.line = 1]>>
     ELSE <<>>)
    \o LineIssues(content, IsDeeplyNested,
                  DimensionIssue("architecture", "complexity", "warning",
                                 "Deeply nested code", FALSE), 1)

\* line.match(/\/\/\s*(TODO|FIXME|HACK|XXX|BUG)/i)
HasTodo(line) == line = NestedEvalLine

\* TODO comments; no line of the model holds a number of three digits or a
\* catch, and no content of the model is long enough for a duplicate block or
\* a long function
performQualityAnalysis(content) ==
    LineIssues(content, HasTodo,
               DimensionIssue("quality", "technical-debt", "info",
                              "TODO/FIXME comment found", FALSE), 1)

\* line.match(/^(export\s+)?(async\s+)?function\s+\w+|.../); no line of the
\* model is a doc comment, so the line before never documents the function
IsFunctionDeclaration(line) == line = FunctionLine

\* analysis.documentation.issues: undocumented functions of a code file
performDocumentationAnalysis(content, fileExtension) ==
    IF fileExtension \in {"js", "jsx", "ts", "tsx", "py", "java"}
    THEN LineIssues(content, IsFunctionDeclaration,
                    DimensionIssue("documentation", "function-docs", "info",
                                   "Function lacks documentation", FALSE), 1)
    ELSE <<>>

\* analysis.documentation.suggestions: no content of the model starts with a
\* doc comment, and no line of it counts more than three branching keywords
documentationSuggestions(content, fileExtension) ==
    IF fileExtension \in {"js", "jsx", "ts", "tsx", "py", "java"}
    THEN <<[type |-> "documentation", category |-> "file-header",
            severity |-> "info", line |-> 1,
            message |-> "Missing file-level documentation"]>>
    ELSE <<>>

\* [...linting.issues, ...security.issues, ...architecture.issues,
\*  ...quality.issues, ...documentation.issues]
analyzeCodeMultiDimensionalIssues(content, fileName) ==
    performLintingAnalysis(content, ExtensionOf(fileName))
    \o performSecurityAnalysis(content, ExtensionOf(fileName))
    \o performArchitectureAnalysis(content)
    \o performQualityAnalysis(content)
    \o performDocumentationAnalysis(content, ExtensionOf(fileName))

----------------------------------------------------------------------------
(* The diff engine: calculateDiff and getChangedLines of lib/diff-engine *)

RECURSIVE LcsLength(_, _)
LcsLength(a, b) ==
    IF a = <<>> \/ b = <<>> THEN 0
    ELSE IF Head(a) = Head(b) THEN 1 + LcsLength(Tail(a), Tail(b))
    ELSE Max(LcsLength(Tail(a), b), LcsLength(a, Tail(b)))

Rest(s, i) == SubSeq(s, i, Len(s))

\* The edit script of a longest-common-subsequence alignment, from old line i
\* and new line j on. An unmatched pair at the same position is one modified
\* entry when that keeps the alignment longest; a deletion carries its line
\* number in the old content, every other entry its line number in the new.
RECURSIVE DiffFrom(_, _, _, _)
DiffFrom(old, new, i, j) ==
    IF i > Len(old) /\ j > Len(new) THEN <<>>
    ELSE IF i > Len(old)
    THEN <<[lineNumber |-> j, type |-> "added"]>> \o DiffFrom(old, new, i, j + 1)
    ELSE IF j > Len(new)
    THEN <<[lineNumber |-> i, type |-> "deleted"]>> \o DiffFrom(old, new, i + 1, j)
    ELSE IF old[i] = new[j] THEN DiffFrom(old, new, i + 1, j + 1)
    ELSE LET both == LcsLength(Rest(old, i + 1), Rest(new, j + 1))
             del == LcsLength(Rest(old, i + 1), Rest(new, j))
             add == LcsLength(Rest(old, i), Rest(new, j + 1))
         IN IF both >= del /\ both >= add
            THEN <<[lineNumber |-> j, type |-> "modified"]>>
                 \o DiffFrom(old, new, i + 1, j + 1)
            ELSE IF del >= add
            THEN <<[lineNumber |-> i, type |-> "deleted"]>>
                 \o DiffFrom(old, new, i + 1, j)
            ELSE <<[lineNumber |-> j, type |-> "added"]>>
                 \o DiffFrom(old, new, i, j + 1)

calculateDiff(oldContent, newContent) == DiffFrom(oldContent, newContent, 1, 1)

\* the entries of the distinct line numbers, the first entry of each number
RECURSIVE getChangedLines(_)
getChangedLines(diff) ==
    IF diff = <<>> THEN <<>>
    ELSE LET front == getChangedLines(SubSeq(diff, 1, Len(diff) - 1))
             last == diff[Len(diff)]
         IN IF \E n \in 1..Len(front) : front[n].lineNumber = last.lineNumber
            THEN front
            ELSE Append(front, last)

----------------------------------------------------------------------------
(* POST /api/code-review/incremental *)

ProximityWindow == 2

\* new Set(changedLines.map(c => c.lineNumber))
changedLineNumbers(changedLines) ==
    {changedLines[n].lineNumber : n \in 1..Len(changedLines)}

\* (a slip: the kept issues come out in reverse order)
RECURSIVE Reverse(_)
Reverse(seq) ==
    IF seq = <<>> THEN <<>> ELSE Append(Reverse(Tail(seq)), Head(seq))

incrementalIssuesReversed(issues, changedLines) ==
    Reverse(SelectSeq(issues, LAMBDA issue :
        \E lineNum \in changedLineNumbers(changedLines) :
            Abs(issue.line - lineNum) <= ProximityWindow))

\* (a slip: a window of one line)
incrementalIssuesNarrow(issues, changedLines) ==
    SelectSeq(issues, LAMBDA issue :
        \E lineNum \in changedLineNumbers(changedLines) :
            Abs(issue.line - lineNum) <= 1)

\* fullAnalysis.issues.filter(issue => some changed line number is within
\* two lines of issue.line)
incrementalIssues(issues, changedLines) ==
    SelectSeq(issues, LAMBDA issue :
        \E lineNum \in changedLineNumbers(changedLines) :
            Abs(issue.line - lineNum) <= ProximityWindow)

CountType(changedLines, type) ==
    Len(SelectSeq(changedLines, LAMBDA c : c.type = type))


\* incrementalData of the review and of the response
incrementalData(changedLines, issues) ==
    [linesChanged |-> Len(changedLines),
     linesAdded |-> CountType(changedLines, "added"),
     linesDeleted |-> CountType(changedLines, "deleted"),
     issuesFound |-> Len(issues)]

\* { ...fullAnalysis.metrics, incrementalData: { ... } }
reviewMetrics(metrics, changedLines, issues) ==
    [totalLines |-> metrics.totalLines, codeLines |-> metrics.codeLines,
     commentLines |-> metrics.commentLines, blankLines |-> metrics.blankLines,
     errorCount |-> metrics.errorCount, warningCount |-> metrics.warningCount,
     infoCount |-> metrics.infoCount, qualityScore |-> metrics.qualityScore,
     incrementalData |-> incrementalData(changedLines, issues)]

NoResponse == [outcome |-> "pending"]

\* the request as received: { fileKey, fileName } of an authenticated user
IncRequest(userId, fileKey, fileName) ==
    [pc |-> "fetch", userId |-> userId, fileKey |-> fileKey,
     fileName |-> fileName, currentContent |-> <<>>,
     previousVersion |-> NoVersion, changedLines |-> <<>>,
     issues |-> <<>>, metrics |-> <<>>,
     diffs |-> 0, analyses |-> 0, response |-> NoResponse]

\* (a slip: the content of the request body is reviewed, where there is one)
IncFetchOfBody ==
    /\ inc.pc = "fetch"
    /\ IF blob[inc.fileKey] = NoBlob
       THEN inc' = [inc EXCEPT !.pc = "done",
                               !.response = [outcome |-> "error"]]
       ELSE inc' = [inc EXCEPT !.pc = "latest",
                               !.currentContent =
                                   IF "content" \in DOMAIN inc
                                   THEN inc.content
                                   ELSE blob[inc.fileKey]]
    /\ UNCHANGED <<fileVersions, reviews, blob, call, lastResult, flt, sc,
                   md, fa, rq>>

\* getFileContent(fileKey): a key without object makes the S3 client throw,
\* and the handler answers 500
IncFetch ==
    /\ inc.pc = "fetch"
    /\ IF blob[inc.fileKey] = NoBlob
       THEN inc' = [inc EXCEPT !.pc = "done",
                               !.response = [outcome |-> "error"]]
       ELSE inc' = [inc EXCEPT !.pc = "latest",
                               !.currentContent = blob[inc.fileKey]]
    /\ UNCHANGED <<fileVersions, reviews, blob, call, lastResult, flt, sc,
                   md, fa, rq>>

\* No previous version: { success: false, requiresFullReview: true }
IncRequiresFullReview ==
    /\ inc.pc = "latest"
    /\ getLatestFileVersion(fileVersions, inc.fileKey) = NoVersion
    /\ inc' = [inc EXCEPT !.pc = "done",
                          !.response = [outcome |-> "requiresFullReview"]]
    /\ UNCHANGED <<fileVersions, reviews, blob, call, lastResult, flt, sc,
                   md, fa, rq>>

\* A previous version: the one diff of its content against the current one
IncDiff ==
    /\ inc.pc = "latest"
    /\ LET previousVersion == getLatestFileVersion(fileVersions, inc.fileKey)
           diff == calculateDiff(previousVersion.content, inc.currentContent)
       IN /\ previousVersion # NoVersion
          /\ inc' = [inc EXCEPT !.pc = "diffed",
                                !.previousVersion = previousVersion,
                                !.diffs = @ + 1,
                                !.changedLines = getChangedLines(diff)]
    /\ UNCHANGED <<fileVersions, reviews, blob, call, lastResult, flt, sc,
                   md, fa, rq>>

\* No changed line: 'No changes detected'
IncNoChanges ==
    /\ inc.pc = "diffed"
    /\ Len(inc.changedLines) = 0
    /\ inc' = [inc EXCEPT
           !.pc = "done",
           !.response =
               [outcome |-> "noChanges",
                changedLines |-> <<>>,
                issues |-> <<>>,
                metrics |->
                    [totalLines |-> Len(inc.currentContent),
                     codeLines |-> 0, commentLines |-> 0,
                     blankLines |-> 0, errorCount |-> 0,
                     warningCount |-> 0, infoCount |-> 0,
                     qualityScore |-> 100,
                     incrementalData |->
                         [linesChanged |-> 0, linesAdded |-> 0,
                          linesDeleted |-> 0, issuesFound |-> 0]]]]
    /\ UNCHANGED <<fileVersions, reviews, blob, call, lastResult, flt, sc,
                   md, fa, rq>>

\* The route imports analyzeCode from '../route', the code-review route, whose
\* function of that name carries no export. What the call at line 74 does is
\* left to the build: where the missing export is only reported, the binding
\* is undefined, the call throws, and the catch answers 500 (here); where the
\* name reaches the function, the analysis runs (IncAnalyze).
IncAnalyzeUnbound ==
    /\ inc.pc = "diffed"
    /\ Len(inc.changedLines) # 0
    /\ inc' = [inc EXCEPT !.pc = "done", !.response = [outcome |-> "error"]]
    /\ UNCHANGED <<fileVersions, reviews, blob, call, lastResult, flt, sc,
                   md, fa, rq>>

\* Changed lines: the analysis of the whole current content and the filter,
\* up to the await of prisma.review.create
IncAnalyze ==
    /\ inc.pc = "diffed"
    /\ Len(inc.changedLines) # 0
    /\ LET fullAnalysis == analyzeCode(inc.currentContent, inc.fileName)
           issues == incrementalIssues(fullAnalysis.issues, inc.changedLines)
       IN inc' = [inc EXCEPT
              !.pc = "persist",
              !.analyses = @ + 1,
              !.issues = issues,
              !.metrics = reviewMetrics(fullAnalysis.metrics,
                                        inc.changedLines, issues)]
    /\ UNCHANGED <<fileVersions, reviews, blob, call, lastResult, flt, sc,
                   md, fa, rq>>

\* prisma.review.create and the response
IncPersist ==
    /\ inc.pc = "persist"
    /\ reviews' = Append(reviews,
           [userId |-> inc.userId,
            fileVersionId |-> inc.previousVersion.id,
            reviewType |-> "incremental",
            linesReviewed |-> inc.changedLines,
            issues |-> inc.issues,
            metrics |-> inc.metrics])
    /\ inc' = [inc EXCEPT
           !.pc = "done",
           !.response =
               [outcome |-> "incremental",
                changedLines |-> inc.changedLines,
                issues |-> inc.issues,
                metrics |-> inc.metrics]]
    /\ UNCHANGED <<fileVersions, blob, call, lastResult, flt, sc, md, fa, rq>>

\* storeFileVersion run to its end on a table, as the calls that filled the
\* table before the review ran
storeFileVersionOn(table, userId, fileKey, content) ==
    IF Unchanged(getLatestFileVersion(table, fileKey),
                 generateContentHash(content))
    THEN table
    ELSE CreateRow(table, userId, fileKey,
                   NewVersion(getLatestFileVersion(table, fileKey)),
                   content, generateContentHash(content), ByteLength(content))

\* the saves before the last one: one-line contents of the file under review,
\* and one content of the other files
EarlierSaves(fileKey) ==
    {<<k, c>> \in FileKeys \X OneLiners : k = fileKey \/ c = <<"f();">>}

\* the tables that at most n earlier saves leave
RECURSIVE EarlierTables(_, _)
EarlierTables(n, fileKey) ==
    IF n = 0 THEN {<<>>}
    ELSE EarlierTables(n - 1, fileKey)
         \cup {storeFileVersionOn(t, u, save[1], save[2]) :
                  t \in EarlierTables(n - 1, fileKey), u \in Users,
                  save \in EarlierSaves(fileKey)}

\* the tables that at most MaxRows saves leave, the last one a save of any
\* content of the file under review
StoredTables(fileKey) ==
    EarlierTables(MaxRows - 1, fileKey)
    \cup {storeFileVersionOn(t, u, fileKey, c) :
             t \in EarlierTables(MaxRows - 1, fileKey), u \in Users,
             c \in Contents}

\* the bucket holds the file under review, or not even that
Buckets(fileKey) ==
    {[k \in FileKeys |-> IF k = fileKey THEN c ELSE NoBlob] :
        c \in Contents \cup {NoBlob}}

\* One review request on a store and a bucket that earlier saves left
IncInit ==
    /\ inc \in {IncRequest(u, k, f) :
                   u \in Users, k \in FileKeys, f \in FileNames}
    /\ fileVersions \in StoredTables(inc.fileKey)
    /\ reviews = <<>>
    /\ blob \in Buckets(inc.fileKey)
    /\ call = [p \in Procs |-> IdleCall]
    /\ lastResult = NoResult
    /\ md = NoAnalysis
    /\ fa = NoFolder
    /\ rq = NoRequest
    /\ flt = NoFilter
    /\ sc = NoScores

IncNext ==
    \/ IncFetch
    \/ IncRequiresFullReview
    \/ IncDiff
    \/ IncNoChanges
    \/ IncAnalyzeUnbound
    \/ IncAnalyze
    \/ IncPersist

IncSpec == IncInit /\ [][IncNext]_vars

----------------------------------------------------------------------------
(* The incremental filter applied to one issue and a list of changed lines *)

MaxIssueLine == 13      \* greatest line number of an issue or a change
MaxChanges == 2         \* changed lines in one list

\* lists of changed lines with distinct line numbers, as getChangedLines
\* yields them; the filter does not read the type of a change
ChangedLineLists ==
    {[n \in 1..Cardinality(ls) |->
         [lineNumber |-> CHOOSE l \in ls :
                             Cardinality({m \in ls : m < l}) = n - 1,
          type |-> "modified"]] :
        ls \in {x \in SUBSET (1..MaxIssueLine) :
                    Cardinality(x) \in 1..MaxChanges}}

FilterInit ==
    /\ fileVersions = <<>>
    /\ reviews = <<>>
    /\ blob = [k \in FileKeys |-> NoBlob]
    /\ call = [p \in Procs |-> IdleCall]
    /\ lastResult = NoResult
    /\ md = NoAnalysis
    /\ fa = NoFolder
    /\ rq = NoRequest
    /\ inc = IncIdle
    /\ sc = NoScores
    /\ flt \in {[pc |-> "filter", line |-> l, changedLines |-> cl, kept |-> <<>>] :
                   l \in 0..MaxIssueLine, cl \in ChangedLineLists}

ApplyFilter ==
    /\ flt.pc = "filter"
    /\ flt' = [flt EXCEPT
           !.pc = "done",
           !.kept = incrementalIssues(
                        <<[Issue("style", "info", "Line too long")
                              EXCEPT !.line = flt.line]>>,
                        flt.changedLines)]
    /\ UNCHANGED <<fileVersions, reviews, blob, call, lastResult, inc, sc,
                   md, fa, rq>>

FilterNext == ApplyFilter

FilterSpec == FilterInit /\ [][FilterNext]_vars

----------------------------------------------------------------------------
(* calculateScores(analysis) of the multi-dimensional analyzer *)

MaxPerSeverity == 7     \* issues of one severity in a dimension

Severities == <<"critical", "error", "warning", "info">>
ScoredDimensions == {"linting", "security", "architecture", "quality"}

DefaultMaxDeduction == 50
SecurityMaxDeduction == 100

\* the penalty of one issue; any other severity costs nothing
Penalty(severity) ==
    CASE severity = "critical" -> 15
      [] severity = "error" -> 10
      [] severity = "warning" -> 5
      [] severity = "info" -> 1
      [] OTHER -> 0

\* issues.forEach(issue => score -= penalty)
RECURSIVE Deduct(_, _)
Deduct(score, issues) ==
    IF issues = <<>> THEN score
    ELSE Deduct(score - Penalty(Head(issues).severity), Tail(issues))

\* (a slip: the clamp is a ceiling)
calculateScoreCeiling(issues, maxDeduction) ==
    Min(100 - maxDeduction, Deduct(100, issues))

\* Math.max(100 - maxDeduction, score)
calculateScore(issues, maxDeduction) ==
    Max(100 - maxDeduction, Deduct(100, issues))

\* (a slip: the quality score is computed from the combined issues)
calculateScoresOfCombined(analysis) ==
    [analysis EXCEPT
        !.linting.score =
            calculateScore(analysis.linting.issues, DefaultMaxDeduction),
        !.security.score =
            calculateScore(analysis.security.issues, SecurityMaxDeduction),
        !.architecture.score =
            calculateScore(analysis.architecture.issues, DefaultMaxDeduction),
        !.quality.score =
            calculateScore(analysis.issues, DefaultMaxDeduction)]

\* the four assignments of calculateScores: no score of the documentation
calculateScores(analysis) ==
    [analysis EXCEPT
        !.linting.score =
            calculateScore(analysis.linting.issues, DefaultMaxDeduction),
        !.security.score =
            calculateScore(analysis.security.issues, SecurityMaxDeduction),
        !.architecture.score =
            calculateScore(analysis.architecture.issues, DefaultMaxDeduction),
        !.quality.score =
            calculateScore(analysis.quality.issues, DefaultMaxDeduction)]

\* n issues of one severity
RECURSIVE Repeat(_, _)
Repeat(issue, n) == IF n = 0 THEN <<>> ELSE <<issue>> \o Repeat(issue, n - 1)

IssuesOfCounts(dimension, counts) ==
    Repeat([type |-> dimension, severity |-> "critical", line |-> 1], counts[1])
    \o Repeat([type |-> dimension, severity |-> "error", line |-> 1], counts[2])
    \o Repeat([type |-> dimension, severity |-> "warning", line |-> 1], counts[3])
    \o Repeat([type |-> dimension, severity |-> "info", line |-> 1], counts[4])

\* the analysis object as analyzeCodeMultiDimensional initialises it, one
\* dimension holding the given issues
AnalysisWith(dimension, issues) ==
    [d \in ScoredDimensions |->
        [issues |-> IF d = dimension THEN issues ELSE <<>>, score |-> 100]]

ScoreInit ==
    /\ fileVersions = <<>>
    /\ reviews = <<>>
    /\ blob = [k \in FileKeys |-> NoBlob]
    /\ call = [p \in Procs |-> IdleCall]
    /\ lastResult = NoResult
    /\ md = NoAnalysis
    /\ fa = NoFolder
    /\ rq = NoRequest
    /\ inc = IncIdle
    /\ flt = NoFilter
    /\ sc \in {[pc |-> "score", analysis |-> AnalysisWith(d, IssuesOfCounts(d, n))] :
                  d \in ScoredDimensions,
                  n \in [1..4 -> 0..MaxPerSeverity]}

CalculateScores ==
    /\ sc.pc = "score"
    /\ sc' = [pc |-> "done", analysis |-> calculateScores(sc.analysis)]
    /\ UNCHANGED <<fileVersions, reviews, blob, call, lastResult, inc, flt,
                   md, fa, rq>>

ScoreNext == CalculateScores

ScoreSpec == ScoreInit /\ [][ScoreNext]_vars

----------------------------------------------------------------------------
(* analyzeCodeMultiDimensional(content, fileName): one run *)

Dimensions ==
    {"linting", "security", "architecture", "quality", "documentation"}

\* the analysis object as the run initialises it
InitialAnalysis ==
    [linting |-> [issues |-> <<>>, score |-> 100],
     security |-> [issues |-> <<>>, score |-> 100],
     architecture |-> [issues |-> <<>>, score |-> 100],
     quality |-> [issues |-> <<>>, score |-> 100],
     documentation |-> [issues |-> <<>>, suggestions |-> <<>>],
     metrics |-> [totalLines |-> 0, codeLines |-> 0, commentLines |-> 0,
                  fileSize |-> 0, complexityScore |-> 0],
     issues |-> <<>>]

\* Each pass pushes what it finds onto the list of its own dimension
LintingPass(analysis, content, fileExtension) ==
    [analysis EXCEPT !.linting.issues =
        @ \o performLintingAnalysis(content, fileExtension)]

SecurityPass(analysis, content, fileExtension) ==
    [analysis EXCEPT !.security.issues =
        @ \o performSecurityAnalysis(content, fileExtension)]

ArchitecturePass(analysis, content, fileExtension) ==
    [analysis EXCEPT !.architecture.issues =
        @ \o performArchitectureAnalysis(content)]

QualityPass(analysis, content, fileExtension) ==
    [analysis EXCEPT !.quality.issues = @ \o performQualityAnalysis(content)]

DocumentationPass(analysis, content, fileExtension) ==
    [analysis EXCEPT
        !.documentation.issues =
            @ \o performDocumentationAnalysis(content, fileExtension),
        !.documentation.suggestions =
            @ \o documentationSuggestions(content, fileExtension)]

\* l.trim() && !l.trim().startsWith('//'); no line of the model is a comment
IsCodeLine(line) == line # EmptyLine

\* matches of /if|else|for|while|case|catch|\?|&&|\|\|/ in a line
BranchKeywords(line) ==
    CASE line = BranchLine -> 1
      [] line = TernaryChain -> 60
      [] OTHER -> 0

RECURSIVE CountBranchKeywords(_)
CountBranchKeywords(content) ==
    IF content = <<>> THEN 0
    ELSE BranchKeywords(Head(content)) + CountBranchKeywords(Tail(content))

\* Math.max(0, Math.min(100, 100 - complexityScore / 2 - avgLineLength / 5))
\* with avgLineLength = content.length / codeLines, or 0 without code lines:
\* the fraction num / den over the denominator 10 * codeLines
maintainabilityIndex(complexityScore, codeLines, length) ==
    LET lines == Max(codeLines, 1)
        den == 10 * lines
        num == 100 * den - 5 * complexityScore * lines
               - (IF codeLines > 0 THEN 2 * length ELSE 0)
    IN [num |-> Max(0, Min(100 * den, num)), den |-> den]

\* (a slip: the cap of the complexity score is forgotten)
calculateAnalysisMetricsUncapped(analysis, content) ==
    [analysis EXCEPT !.metrics =
        [totalLines |-> Len(content),
         codeLines |-> Len(SelectSeq(content, IsCodeLine)),
         commentLines |-> 0,
         fileSize |-> ByteLength(content),
         complexityScore |-> CountBranchKeywords(content) * 2,
         maintainabilityIndex |->
             maintainabilityIndex(CountBranchKeywords(content) * 2,
                                  Len(SelectSeq(content, IsCodeLine)),
                                  ByteLength(content))]]

\* calculateMetrics(content, lines, analysis)
calculateAnalysisMetrics(analysis, content) ==
    [analysis EXCEPT !.metrics =
        [totalLines |-> Len(content),
         codeLines |-> Len(SelectSeq(content, IsCodeLine)),
         commentLines |-> 0,
         fileSize |-> ByteLength(content),
         complexityScore |-> Min(100, CountBranchKeywords(content) * 2),
         maintainabilityIndex |->
             maintainabilityIndex(
                 Min(100, CountBranchKeywords(content) * 2),
                 Len(SelectSeq(content, IsCodeLine)),
                 ByteLength(content))]]

\* (a slip: the security issues come first)
combineIssuesSecurityFirst(analysis) ==
    [analysis EXCEPT !.issues =
        analysis.security.issues \o analysis.linting.issues
        \o analysis.architecture.issues \o analysis.quality.issues
        \o analysis.documentation.issues]

\* analysis.issues = [...linting, ...security, ...architecture, ...quality,
\*                    ...documentation]
combineIssues(analysis) ==
    [analysis EXCEPT !.issues =
        analysis.linting.issues \o analysis.security.issues
        \o analysis.architecture.issues \o analysis.quality.issues
        \o analysis.documentation.issues]

MdRequest(content, fileName) ==
    [pc |-> "linting", content |-> content, fileName |-> fileName,
     analysis |-> InitialAnalysis]

\* One step of the run: the call the run has reached is made on the analysis
\* object and the run moves on to the next
MdStep(at, next, result) ==
    /\ md.pc = at
    /\ md' = [md EXCEPT !.pc = next, !.analysis = result]
    /\ UNCHANGED <<fileVersions, reviews, blob, call, lastResult, inc, flt,
                   sc, fa, rq>>

MdLinting ==
    MdStep("linting", "security",
           LintingPass(md.analysis, md.content, ExtensionOf(md.fileName)))

MdSecurity ==
    MdStep("security", "architecture",
           SecurityPass(md.analysis, md.content, ExtensionOf(md.fileName)))

MdArchitecture ==
    MdStep("architecture", "quality",
           ArchitecturePass(md.analysis, md.content,
                            ExtensionOf(md.fileName)))

MdQuality ==
    MdStep("quality", "documentation",
           QualityPass(md.analysis, md.content, ExtensionOf(md.fileName)))

MdDocumentation ==
    MdStep("documentation", "metrics",
           DocumentationPass(md.analysis, md.content,
                             ExtensionOf(md.fileName)))

MdMetrics ==
    MdStep("metrics", "combine",
           calculateAnalysisMetrics(md.analysis, md.content))

\* the combined issues, the scores, and the return
MdCombine ==
    MdStep("combine", "done", calculateScores(combineIssues(md.analysis)))

MdInit ==
    /\ fileVersions = <<>>
    /\ reviews = <<>>
    /\ blob = [k \in FileKeys |-> NoBlob]
    /\ call = [p \in Procs |-> IdleCall]
    /\ lastResult = NoResult
    /\ inc = IncIdle
    /\ flt = NoFilter
    /\ sc = NoScores
    /\ fa = NoFolder
    /\ rq = NoRequest
    /\ md \in {MdRequest(c, f) : c \in AnalyzedContents, f \in FileNames}

MdNext ==
    \/ MdLinting
    \/ MdSecurity
    \/ MdArchitecture
    \/ MdQuality
    \/ MdDocumentation
    \/ MdMetrics
    \/ MdCombine

MdSpec == MdInit /\ [][MdNext]_vars

\* calculateMetrics alone, on contents that reach the cap of the complexity
\* score and both ends of the maintainability index
MetricsContents ==
    UNION {[1..n -> {BranchLine, EmptyLine, TernaryChain, DeepBrackets}] :
              n \in 1..MaxAnalyzedLines}

MetricsInit ==
    /\ fileVersions = <<>>
    /\ reviews = <<>>
    /\ blob = [k \in FileKeys |-> NoBlob]
    /\ call = [p \in Procs |-> IdleCall]
    /\ lastResult = NoResult
    /\ inc = IncIdle
    /\ flt = NoFilter
    /\ sc = NoScores
    /\ fa = NoFolder
    /\ rq = NoRequest
    /\ md \in {[MdRequest(c, f) EXCEPT !.pc = "metrics"] :
                  c \in MetricsContents, f \in FileNames}

MetricsSpec == MetricsInit /\ [][MdMetrics]_vars

\* analyzeCodeMultiDimensional(content, fileName), run to its return
analyzeCodeMultiDimensional(content, fileName) ==
    LET ext == ExtensionOf(fileName)
        linted == LintingPass(InitialAnalysis, content, ext)
        secured == SecurityPass(linted, content, ext)
        built == ArchitecturePass(secured, content, ext)
        qualified == QualityPass(built, content, ext)
        documented == DocumentationPass(qualified, content, ext)
    IN calculateScores(combineIssues(
           calculateAnalysisMetrics(documented, content)))

----------------------------------------------------------------------------
(* The routes around the version store: FileEditor.handleSave with
   POST /api/file-content and POST /api/file-version, GET /api/file-version,
   POST /api/code-review and POST /api/folder-analysis *)

\* what an editor saves: a one-line content, or the empty string
SavedContents == OneLiners \cup {<<EmptyLine>>}

\* the answer of POST /api/file-version when !content
NotFound(fileKey) ==
    [fileKey |-> fileKey, error |-> "File not found", status |-> 404]

\* handleSave up to the answer of POST /api/file-content: uploadFileContent
\* overwrites the object. (hasChanges compares with the content this editor
\* loaded, which another editor's save may have replaced since.)
EditorUpload(p, userId, fileKey, content) ==
    /\ call[p].pc = "idle"
    /\ Len(fileVersions) + Cardinality({q \in Procs : call[q].pc # "idle"})
          < MaxSaves
    /\ blob' = [blob EXCEPT ![fileKey] = content]
    /\ call' = [call EXCEPT ![p] = [IdleCall EXCEPT !.pc = "uploaded",
                                                    !.userId = userId,
                                                    !.fileKey = fileKey]]
    /\ UNCHANGED <<fileVersions, reviews, lastResult, inc, flt, sc, md, fa, rq>>

\* POST /api/file-version up to the call of storeFileVersion: getFileContent
\* and the test of its result
VersionPostFetch(p) ==
    /\ call[p].pc = "uploaded"
    /\ LET content == blob[call[p].fileKey]
       IN IF content = <<EmptyLine>>
          THEN /\ lastResult' = NotFound(call[p].fileKey)
               /\ call' = [call EXCEPT ![p] = IdleCall]
          ELSE /\ call' = [call EXCEPT ![p].pc = "fetched",
                                       ![p].content = content]
               /\ lastResult' = lastResult
    /\ UNCHANGED <<fileVersions, reviews, blob, inc, flt, sc, md, fa, rq>>

\* storeFileVersion, called by the route, up to its first DB write
VersionPostStore(p) ==
    /\ call[p].pc = "fetched"
    /\ LET hash == generateContentHash(call[p].content)
           latestVersion == getLatestFileVersion(fileVersions, call[p].fileKey)
       IN IF Unchanged(latestVersion, hash)
          THEN /\ lastResult' = [fileKey |-> call[p].fileKey,
                                 changed |-> FALSE,
                                 version |-> latestVersion.version]
               /\ call' = [call EXCEPT ![p] = IdleCall]
          ELSE /\ call' = [call EXCEPT ![p].pc = "create",
                                       ![p].newVersion =
                                           NewVersion(latestVersion)]
               /\ lastResult' = lastResult
    /\ UNCHANGED <<fileVersions, reviews, blob, inc, flt, sc, md, fa, rq>>

\* prisma.fileVersion.findMany({ where: { fileKey }, orderBy: { version:
\* 'desc' }, select }): of rows of equal version the one stored first comes
\* first; createdAt orders the rows as their ids do
RECURSIVE getFileVersionHistory(_, _)
getFileVersionHistory(table, fileKey) ==
    IF RowsOf(table, fileKey) = <<>> THEN <<>>
    ELSE LET r == MaxVersionRow(RowsOf(table, fileKey))
         IN <<[id |-> r.id, version |-> r.version, createdAt |-> r.id,
               size |-> r.size, hash |-> r.hash, fileName |-> r.fileName]>>
            \o getFileVersionHistory(
                   SelectSeq(table, LAMBDA row : row.id # r.id), fileKey)

\* getVersionStats: null without versions, else the count (the dates and
\* sizes of the first and last version are left out)
getVersionStats(table, fileKey) ==
    IF RowsOf(table, fileKey) = <<>> THEN [totalVersions |-> 0]
    ELSE [totalVersions |-> Len(RowsOf(table, fileKey))]

\* GET /api/file-version?fileKey= up to the first of the two reads that
\* Promise.all awaits, the one of getFileVersionHistory (a behaviour holds
\* one request to the routes other than the editor's)
GetHistory(fileKey) ==
    /\ rq.pc = "none"
    /\ fa.pc = "none"
    /\ rq' = [pc |-> "history", success |-> TRUE, fileKey |-> fileKey,
              history |-> getFileVersionHistory(fileVersions, fileKey),
              stats |-> [totalVersions |-> 0]]
    /\ UNCHANGED <<fileVersions, reviews, blob, call, lastResult, inc, flt, sc,
                   md, fa>>

\* the second read, the one of getVersionStats, and the answer
GetStats ==
    /\ rq.pc = "history"
    /\ rq' = [rq EXCEPT !.pc = "answered",
                        !.stats = getVersionStats(fileVersions, rq.fileKey)]
    /\ UNCHANGED <<fileVersions, reviews, blob, call, lastResult, inc, flt, sc,
                   md, fa>>

\* POST /api/code-review: getFileContent throws without an object; otherwise
\* the analysis is returned
CodeReview(fileKey) ==
    /\ rq.pc = "none"
    /\ fa.pc = "none"
    /\ rq' = IF blob[fileKey] = NoBlob
             THEN [pc |-> "failed", fileKey |-> fileKey, status |-> 500,
                   error |-> "Failed to perform code review"]
             ELSE [pc |-> "reviewed", fileKey |-> fileKey,
                   fileName |-> NameOf(fileKey), content |-> blob[fileKey],
                   analysis |-> analyzeCode(blob[fileKey], NameOf(fileKey))]
    /\ UNCHANGED <<fileVersions, reviews, blob, call, lastResult, inc, flt, sc,
                   md, fa>>

\* (a slip: the score is not kept within 0 and 10)
calculateQualityScoreUnclamped(analysis) ==
    100 - 20 * CountSeverity(analysis.issues, "critical")
        - 5 * CountSeverity(analysis.issues, "warning")
        - CountSeverity(analysis.issues, "info")
        - 20 * Len(analysis.security.issues)
        - 5 * Len(analysis.architecture.issues)
        - 3 * Len(analysis.quality.issues)
        - 2 * Len(analysis.documentation.issues)

\* calculateQualityScore(analysis), in tenths of a point: 10 less 2 per
\* critical issue, 0.5 per warning, 0.1 per info, 2 per security issue, 0.5
\* per architecture issue, 0.3 per quality issue and 0.2 per documentation
\* issue, rounded to one decimal and kept within 0 and 10
calculateQualityScore(analysis) ==
    Max(0, Min(100,
        100 - 20 * CountSeverity(analysis.issues, "critical")
            - 5 * CountSeverity(analysis.issues, "warning")
            - CountSeverity(analysis.issues, "info")
            - 20 * Len(analysis.security.issues)
            - 5 * Len(analysis.architecture.issues)
            - 3 * Len(analysis.quality.issues)
            - 2 * Len(analysis.documentation.issues)))

\* listFilesInFolder: the objects of the folder, in key order
listFilesInFolder ==
    SelectSeq(<<"u1/a.js", "u1/b.json">>, LAMBDA k : blob[k] # NoBlob)

\* POST /api/folder-analysis up to its loop: 404 for a folder without files
FolderStart(userId) ==
    /\ fa.pc = "none"
    /\ rq.pc = "none"
    /\ fa' = IF listFilesInFolder = <<>>
             THEN [pc |-> "answered", status |-> 404,
                   error |-> "No files found in folder"]
             ELSE [pc |-> "files", userId |-> userId,
                   files |-> listFilesInFolder, results |-> <<>>,
                   totalFiles |-> Len(listFilesInFolder),
                   analyzedFiles |-> 0, skippedFiles |-> 0,
                   passedFiles |-> 0, failedFiles |-> 0, thrown |-> {}]
    /\ UNCHANGED <<fileVersions, reviews, blob, call, lastResult, inc, flt, sc,
                   md, rq>>

\* One turn of the loop for a file of a code extension whose calls all
\* return: getFileContent, the analysis, storeFileVersion, the quality score,
\* the pass or fail count, results.push and the count of analysed files
FolderFile ==
    /\ fa.pc = "files"
    /\ fa.files # <<>>
    /\ LET key == Head(fa.files)
           content == blob[key]
           analysis == analyzeCodeMultiDimensional(content, NameOf(key))
           qualityScore == calculateQualityScore(analysis)
           isPassed == qualityScore > 80
       IN /\ fileVersions' = storeFileVersionOn(fileVersions, fa.userId, key,
                                                content)
          /\ fa' = [fa EXCEPT
                       !.files = Tail(fa.files),
                       !.passedFiles = IF isPassed THEN @ + 1 ELSE @,
                       !.failedFiles = IF isPassed THEN @ ELSE @ + 1,
                       !.results = Append(fa.results,
                           [filePath |-> key, fileName |-> NameOf(key),
                            issues |-> analysis.issues,
                            securityIssues |-> Len(analysis.security.issues),
                            qualityScore |-> qualityScore,
                            isPassed |-> isPassed]),
                       !.analyzedFiles = fa.analyzedFiles + 1]
    /\ UNCHANGED <<reviews, blob, call, lastResult, inc, flt, sc, md, rq>>

\* (a slip: the file is counted as passed before the call that throws)
FolderFileThrowsCounted ==
    /\ fa.pc = "files"
    /\ fa.files # <<>>
    /\ fa' = [fa EXCEPT !.files = Tail(fa.files),
                        !.passedFiles = fa.passedFiles + 1,
                        !.skippedFiles = fa.skippedFiles + 1,
                        !.thrown = fa.thrown \cup {Head(fa.files)}]
    /\ UNCHANGED <<fileVersions, reviews, blob, call, lastResult, inc, flt, sc,
                   md, rq>>

\* One turn of the loop in which storeFileVersion throws (the database is
\* unreachable): the catch of the turn counts the file as skipped. A throw of
\* getFileContent or of the analysis ends the turn in the same way.
FolderFileThrows ==
    /\ fa.pc = "files"
    /\ fa.files # <<>>
    /\ fa' = [fa EXCEPT !.files = Tail(fa.files),
                        !.skippedFiles = fa.skippedFiles + 1,
                        !.thrown = fa.thrown \cup {Head(fa.files)}]
    /\ UNCHANGED <<fileVersions, reviews, blob, call, lastResult, inc, flt, sc,
                   md, rq>>

\* after the loop: the answer
FolderRespond ==
    /\ fa.pc = "files"
    /\ fa.files = <<>>
    /\ fa' = [pc |-> "answered", status |-> 200, success |-> TRUE,
              files |-> fa.results, totalFiles |-> fa.totalFiles,
              analyzedFiles |-> fa.analyzedFiles,
              skippedFiles |-> fa.skippedFiles,
              passedFiles |-> fa.passedFiles, failedFiles |-> fa.failedFiles,
              thrown |-> fa.thrown]
    /\ UNCHANGED <<fileVersions, reviews, blob, call, lastResult, inc, flt, sc,
                   md, rq>>

\* Two editors, and requests to the other routes, interleaving at their awaits
AppNext ==
    \/ \E p \in Procs, u \in Users, k \in FileKeys, c \in SavedContents :
           EditorUpload(p, u, k, c)
    \/ \E p \in Procs : VersionPostFetch(p)
    \/ \E p \in Procs : VersionPostStore(p)
    \/ \E p \in Procs : StoreCreate(p)
    \/ \E k \in FileKeys : GetHistory(k)
    \/ GetStats
    \/ \E k \in FileKeys : CodeReview(k)
    \/ \E u \in Users : FolderStart(u)
    \/ FolderFile
    \/ FolderFileThrows
    \/ FolderRespond

AppSpec == Init /\ [][AppNext]_vars

\* One folder analysis of a folder that holds a JavaScript file of any
\* analysed content, a JSON file, both or neither
FolderInit ==
    /\ blob \in {[k \in FileKeys |-> IF k = "u1/a.js" THEN c ELSE d] :
                    c \in AnalyzedContents \cup {NoBlob},
                    d \in {NoBlob, <<"f();">>}}
    /\ fileVersions = <<>>
    /\ reviews = <<>>
    /\ call = [p \in Procs |-> IdleCall]
    /\ lastResult = NoResult
    /\ inc = IncIdle
    /\ flt = NoFilter
    /\ sc = NoScores
    /\ md = NoAnalysis
    /\ fa = NoFolder
    /\ rq = NoRequest

FolderNext ==
    \/ \E u \in Users : FolderStart(u)
    \/ FolderFile
    \/ FolderFileThrows
    \/ FolderRespond

FolderSpec == FolderInit /\ [][FolderNext]_vars

----------------------------------------------------------------------------
(* An incremental review requested after the editors' saves *)

\* POST /api/code-review/incremental received, for a file that was saved
IncStart(userId, fileKey) ==
    /\ inc.pc = "none"
    /\ blob[fileKey] # NoBlob
    /\ \A p \in Procs : call[p].pc = "idle"
    /\ inc' = IncRequest(userId, fileKey, NameOf(fileKey))
    /\ UNCHANGED <<fileVersions, reviews, blob, call, lastResult, flt, sc,
                   md, fa, rq>>

\* The saves interleave at their awaits; the review is requested when they
\* have completed, and the objects are not written again after that
SavedNext ==
    \/ \E p \in Procs, u \in Users, k \in FileKeys, c \in SavedContents :
           inc.pc = "none" /\ EditorUpload(p, u, k, c)
    \/ \E p \in Procs : VersionPostFetch(p)
    \/ \E p \in Procs : VersionPostStore(p)
    \/ \E p \in Procs : StoreCreate(p)
    \/ \E u \in Users, k \in FileKeys : IncStart(u, k)
    \/ IncFetch
    \/ IncRequiresFullReview
    \/ IncDiff
    \/ IncNoChanges
    \/ IncAnalyzeUnbound
    \/ IncAnalyze
    \/ IncPersist

SavedSpec == Init /\ [][SavedNext]_vars

----------------------------------------------------------------------------
(* IncrementalHistoryAnalysis: one incremental review requested per version
   of the history *)

\* analyzeAllVersions, one turn of its loop up to the POST: the content of
\* the version is fetched and, unless it is empty, sent along with the
\* version's id in the body of the request
HistRequest ==
    /\ rq.pc = "versions"
    /\ rq.versions # <<>>
    /\ inc.pc = "none"
    /\ LET version == Head(rq.versions)
           row == CHOOSE r \in {fileVersions[i] : i \in 1..Len(fileVersions)} :
                      r.id = version.id
       IN IF row.content = <<EmptyLine>>
          THEN /\ rq' = [rq EXCEPT !.versions = Tail(rq.versions)]
               /\ inc' = inc
          ELSE /\ inc' = IncRequest(rq.userId, rq.fileKey, NameOf(rq.fileKey))
                         @@ [versionId |-> version.id, content |-> row.content]
               /\ rq' = rq
    /\ UNCHANGED <<fileVersions, reviews, blob, call, lastResult, flt, sc,
                   md, fa>>

\* the answer is kept under the version's id (null for an answer that is not
\* ok), and the loop goes on
HistCollect ==
    /\ rq.pc = "versions"
    /\ inc.pc = "done"
    /\ rq' = [rq EXCEPT
                  !.versions = Tail(rq.versions),
                  !.results = Append(rq.results,
                      [versionId |-> inc.versionId,
                       analysis |-> IF inc.response.outcome = "error"
                                    THEN [outcome |-> "null"]
                                    ELSE inc.response])]
    /\ inc' = IncIdle
    /\ UNCHANGED <<fileVersions, reviews, blob, call, lastResult, flt, sc,
                   md, fa>>

\* The panel has loaded the history of a file that earlier saves left; the
\* build has settled what the route's call of analyzeCode does
HistInit ==
    /\ \E k \in FileKeys :
          /\ fileVersions \in EarlierTables(MaxRows, k)
          /\ blob \in Buckets(k)
          /\ rq \in {[pc |-> "versions", userId |-> u, fileKey |-> k,
                      versions |-> getFileVersionHistory(fileVersions, k),
                      results |-> <<>>, analyzeCodeBound |-> b] :
                        u \in Users, b \in BOOLEAN}
    /\ inc = IncIdle
    /\ reviews = <<>>
    /\ call = [p \in Procs |-> IdleCall]
    /\ lastResult = NoResult
    /\ md = NoAnalysis
    /\ fa = NoFolder
    /\ flt = NoFilter
    /\ sc = NoScores

\* (a request is made for a version of the file, so the route always finds
\* a latest version)
HistNext ==
    \/ HistRequest
    \/ IncFetch
    \/ IncDiff
    \/ IncNoChanges
    \/ ~rq.analyzeCodeBound /\ IncAnalyzeUnbound
    \/ rq.analyzeCodeBound /\ IncAnalyze
    \/ IncPersist
    \/ HistCollect

HistSpec == HistInit /\ [][HistNext]_vars

----------------------------------------------------------------------------
(* GET /api/file-version/[id]/content and GET /api/file-version/[id]/diff *)

\* the signed-in users that call the two routes and own the stored versions
Callers == {"u1", "u2"}

\* the ids a request names: those of the rows and one of no row
VersionIds == 1..(MaxRows + 1)

\* the tables that at most n saves of the callers leave
RECURSIVE OwnedTables(_)
OwnedTables(n) ==
    IF n = 0 THEN {<<>>}
    ELSE OwnedTables(n - 1)
         \cup {storeFileVersionOn(t, u, k, c) :
                  t \in OwnedTables(n - 1), u \in Callers, k \in FileKeys,
                  c \in OneLiners}

\* prisma.fileVersion.findUnique({ where: { id } })
getFileVersion(table, id) ==
    IF \E n \in 1..Len(table) : table[n].id = id
    THEN table[CHOOSE n \in 1..Len(table) : table[n].id = id]
    ELSE NoVersion

\* prisma.fileVersion.findFirst({ where: { fileKey, version: { lt } },
\* orderBy: { version: 'desc' } })
getPreviousVersion(table, current) ==
    LET rows == SelectSeq(table, LAMBDA r :
                    r.fileKey = current.fileKey /\ r.version < current.version)
    IN IF rows = <<>> THEN NoVersion ELSE MaxVersionRow(rows)

\* GET /api/file-version/[id]/content by a signed-in user
GetVersionContent(userId, id) ==
    /\ rq.pc = "none"
    /\ LET fileVersion == getFileVersion(fileVersions, id)
       IN rq' = IF fileVersion = NoVersion
                THEN [pc |-> "version", route |-> "content",
                      userId |-> userId, id |-> id, status |-> 404]
                ELSE IF fileVersion.userId # userId
                THEN [pc |-> "version", route |-> "content",
                      userId |-> userId, id |-> id, status |-> 403]
                ELSE [pc |-> "version", route |-> "content",
                      userId |-> userId, id |-> id, status |-> 200,
                      fileKey |-> fileVersion.fileKey,
                      content |-> fileVersion.content,
                      version |-> fileVersion.version]
    /\ UNCHANGED <<fileVersions, reviews, blob, call, lastResult, inc, flt, sc,
                   md, fa>>

\* the values of the compareWith parameter: 'latest', a version id, or absent
CompareWith ==
    {[kind |-> "latest", id |-> 0], [kind |-> "absent", id |-> 0]}
    \cup {[kind |-> "id", id |-> i] : i \in VersionIds}

\* GET /api/file-version/[id]/diff?compareWith= by a signed-in user; user is
\* read from withAuth() and not used. The diff engine's generateDiff is the
\* edit script of the two contents.
GetVersionDiff(userId, id, compareWith) ==
    /\ rq.pc = "none"
    /\ LET currentVersion == getFileVersion(fileVersions, id)
           compareVersion ==
               IF compareWith.kind = "latest"
               THEN getLatestFileVersion(fileVersions, currentVersion.fileKey)
               ELSE IF compareWith.kind = "id"
               THEN getFileVersion(fileVersions, compareWith.id)
               ELSE getPreviousVersion(fileVersions, currentVersion)
       IN rq' = IF currentVersion = NoVersion
                THEN [pc |-> "version", route |-> "diff",
                      userId |-> userId, id |-> id, status |-> 404]
                ELSE IF compareVersion = NoVersion
                THEN [pc |-> "version", route |-> "diff",
                      userId |-> userId, id |-> id, status |-> 404]
                ELSE [pc |-> "version", route |-> "diff",
                      userId |-> userId, id |-> id, status |-> 200,
                      currentVersion |-> [id |-> currentVersion.id,
                                          version |-> currentVersion.version],
                      compareVersion |-> [id |-> compareVersion.id,
                                          version |-> compareVersion.version],
                      diff |-> calculateDiff(compareVersion.content,
                                             currentVersion.content)]
    /\ UNCHANGED <<fileVersions, reviews, blob, call, lastResult, inc, flt, sc,
                   md, fa>>

\* One request to either route on a store that the callers' saves left
OwnerInit ==
    /\ fileVersions \in OwnedTables(MaxRows)
    /\ reviews = <<>>
    /\ blob = [k \in FileKeys |-> NoBlob]
    /\ call = [p \in Procs |-> IdleCall]
    /\ lastResult = NoResult
    /\ inc = IncIdle
    /\ flt = NoFilter
    /\ sc = NoScores
    /\ md = NoAnalysis
    /\ fa = NoFolder
    /\ rq = NoRequest

OwnerNext ==
    \/ \E u \in Callers, id \in VersionIds : GetVersionContent(u, id)
    \/ \E u \in Callers, id \in VersionIds, c \in CompareWith :
           GetVersionDiff(u, id, c)

OwnerSpec == OwnerInit /\ [][OwnerNext]_vars

----------------------------------------------------------------------------
(* handleOverwriteConfirm of the files list and of the folder tree: the three
   requests of the flow, each of which can be answered with an error *)

\* DELETE /api/files/delete { key: file.key }; a response that is not ok
\* throws, and the catch ends the flow
OverwriteDelete(ok) ==
    /\ rq.pc = "overwrite"
    /\ blob' = IF ok THEN [blob EXCEPT ![rq.key] = NoBlob] ELSE blob
    /\ rq' = [rq EXCEPT !.pc = IF ok THEN "deleted" ELSE "failed"]
    /\ UNCHANGED <<fileVersions, reviews, call, lastResult, inc, flt, sc, md,
                   fa>>

\* POST /api/upload { fileName: fullFileName, folderPath }
OverwriteUploadUrl(ok) ==
    /\ rq.pc = "deleted"
    /\ rq' = [rq EXCEPT !.pc = IF ok THEN "uploadUrl" ELSE "failed"]
    /\ UNCHANGED <<fileVersions, reviews, blob, call, lastResult, inc, flt, sc,
                   md, fa>>

\* PUT uploadUrl with the new file as body
OverwriteUpload(ok) ==
    /\ rq.pc = "uploadUrl"
    /\ blob' = IF ok THEN [blob EXCEPT ![rq.newKey] = rq.newFile] ELSE blob
    /\ rq' = [rq EXCEPT !.pc = IF ok THEN "overwritten" ELSE "failed"]
    /\ UNCHANGED <<fileVersions, reviews, call, lastResult, inc, flt, sc, md,
                   fa>>

\* The dialog confirmed for a stored file, a new file and a file name, which
\* is the old one or another
OverwriteInit ==
    /\ blob \in [FileKeys -> OneLiners \cup {NoBlob}]
    /\ rq \in {[pc |-> "overwrite", key |-> k, newKey |-> n, newFile |-> c] :
                  k \in FileKeys, n \in FileKeys, c \in OneLiners}
    /\ blob[rq.key] # NoBlob
    /\ fileVersions = <<>>
    /\ reviews = <<>>
    /\ call = [p \in Procs |-> IdleCall]
    /\ lastResult = NoResult
    /\ inc = IncIdle
    /\ flt = NoFilter
    /\ sc = NoScores
    /\ md = NoAnalysis
    /\ fa = NoFolder

OverwriteNext ==
    \/ \E ok \in BOOLEAN : OverwriteDelete(ok)
    \/ \E ok \in BOOLEAN : OverwriteUploadUrl(ok)
    \/ \E ok \in BOOLEAN : OverwriteUpload(ok)

OverwriteSpec == OverwriteInit /\ [][OverwriteNext]_vars

----------------------------------------------------------------------------
(* POST /api/folder-analysis: from folderPath to the files of the loop.
   Strings are sequences of characters here, as startsWith reads them. *)

PathChars == {"u", "1", "0", "/", "f"}

\* two users, the id of one a prefix of the other's
UserIds == {<<"u", "1">>, <<"u", "1", "0">>}

\* the objects of the bucket: a file of each user
BucketKeys == {<<"u", "1", "/", "f">>, <<"u", "1", "0", "/", "f">>}

FolderPaths == UNION {[1..n -> PathChars] : n \in 1..MaxPathLength}

\* s.startsWith(prefix)
startsWith(s, prefix) ==
    /\ Len(prefix) <= Len(s)
    /\ SubSeq(s, 1, Len(prefix)) = prefix

\* the prefix the route lists: folderPath, prefixed by the user's id and '/'
\* unless folderPath.startsWith(user.id), and ending in '/'
s3FolderPath(userId, folderPath) ==
    LET path == IF startsWith(folderPath, userId) THEN folderPath
                ELSE userId \o <<"/">> \o folderPath
    IN IF path[Len(path)] = "/" THEN path ELSE path \o <<"/">>

\* listFilesInFolder(folderPath): ListObjectsV2 with the prefix, to which a
\* '/' is added where it is missing
listFilesWithPrefix(folderPath) ==
    {key \in BucketKeys :
        startsWith(key, IF folderPath[Len(folderPath)] = "/" THEN folderPath
                        ELSE folderPath \o <<"/">>)}

\* The route up to its loop: the listing, the second listing without the
\* trailing '/' when the first is empty, and 404 without files. The loop
\* reads, analyses and versions every file of the list.
FolderList(userId, folderPath) ==
    /\ fa.pc = "none"
    /\ LET path == s3FolderPath(userId, folderPath)
           files == IF listFilesWithPrefix(path) # {}
                    THEN listFilesWithPrefix(path)
                    ELSE listFilesWithPrefix(SubSeq(path, 1, Len(path) - 1))
       IN fa' = [pc |-> "listed", userId |-> userId,
                 folderPath |-> folderPath, s3FolderPath |-> path,
                 status |-> IF files = {} THEN 404 ELSE 200,
                 analysisFiles |-> files]
    /\ UNCHANGED <<fileVersions, reviews, blob, call, lastResult, inc, flt, sc,
                   md, rq>>

PathNext == \E u \in UserIds, f \in FolderPaths : FolderList(u, f)

PathSpec == Init /\ [][PathNext]_vars

----------------------------------------------------------------------------
(* Claims about the version store *)

VersionNumbers(fileKey) ==
    [i \in 1..Len(RowsOf(fileVersions, fileKey)) |->
        RowsOf(fileVersions, fileKey)[i].version]

\* C1: when storeFileVersion calls run one at a time, the versions of every
\* fileKey are numbered 1..n in creation order, without gap or duplicate, and
\* every call returns the number of the latest version: 1 for the first
\* content of a fresh fileKey, 2 for a different content after it.
C1_GaplessInCreationOrder ==
    /\ \A k \in FileKeys :
           \A i \in 1..Len(VersionNumbers(k)) : VersionNumbers(k)[i] = i
    /\ lastResult # NoResult =>
           lastResult.version = Len(VersionNumbers(lastResult.fileKey))

C1_SecondVersionReturned ==
    \E k \in FileKeys :
        /\ Len(VersionNumbers(k)) = 2
        /\ lastResult = [fileKey |-> k, changed |-> TRUE, version |-> 2]

\* C2: whatever the interleaving of storeFileVersion calls, the versions of a
\* fileKey carry strictly increasing numbers in creation order (so no number
\* twice, none out of order).
C2_NoDuplicateNoDisorder ==
    \A k \in FileKeys :
        \A i, j \in 1..Len(VersionNumbers(k)) :
            i < j => VersionNumbers(k)[i] < VersionNumbers(k)[j]

\* C3: a version is created only when the fileKey has no version or the
\* fingerprint differs from that of the latest version, so no two consecutive
\* versions of a fileKey have the same fingerprint, and a call that returns
\* changed = false returns the number of the latest version.
C3_CreatedOnlyOnNewFingerprint ==
    /\ \A k \in FileKeys :
           \A i \in 1..Len(RowsOf(fileVersions, k)) :
               i > 1 => RowsOf(fileVersions, k)[i].hash
                            # RowsOf(fileVersions, k)[i - 1].hash
    /\ (lastResult # NoResult /\ ~lastResult.changed) =>
           lastResult.version
               = getLatestFileVersion(fileVersions, lastResult.fileKey).version

----------------------------------------------------------------------------
(* Claims about the incremental filter and the dimension scores *)

FilterLines == {flt.changedLines[n].lineNumber : n \in 1..Len(flt.changedLines)}

\* C6: an issue at a line L >= 1 is kept exactly when some changed line lies
\* within two lines of L; an issue at line 10 is kept with a change at line 8
\* or 12 and dropped when the nearest change is at line 7 or 13.
C6_KeptWithinTwoLines ==
    (flt.pc = "done" /\ flt.line >= 1) =>
        /\ (flt.kept # <<>>) <=>
               (FilterLines \cap ((flt.line - 2)..(flt.line + 2)) # {})
        /\ (flt.line = 10 /\ FilterLines \cap {8, 12} # {}) => Len(flt.kept) = 1
        /\ (flt.line = 10 /\ FilterLines \cap (8..12) = {}) => flt.kept = <<>>

C6_BoundaryCases ==
    /\ flt.pc = "done"
    /\ flt.line = 10
    /\ \/ FilterLines = {12} /\ Len(flt.kept) = 1
       \/ FilterLines = {7, 13} /\ flt.kept = <<>>

PenaltyTotal(issues) ==
    15 * CountSeverity(issues, "critical") + 10 * CountSeverity(issues, "error")
    + 5 * CountSeverity(issues, "warning") + CountSeverity(issues, "info")

FloorOf(dimension) == IF dimension = "security" THEN 0 ELSE 50

\* C10: the score of the linting, architecture and quality dimensions is
\* max(50, 100 - P) and that of the security dimension max(0, 100 - P), P
\* being the summed penalties (critical 15, error 10, warning 5, info 1) of the
\* dimension's issues; so every score lies between its floor and 100, and with
\* P > 100 architecture reports 50 and security 0.
C10_ScoreIsFlooredPenalty ==
    sc.pc = "done" =>
        \A d \in ScoredDimensions :
            LET P == PenaltyTotal(sc.analysis[d].issues)
                score == sc.analysis[d].score
            IN /\ score = (IF 100 - P >= FloorOf(d) THEN 100 - P ELSE FloorOf(d))
               /\ score >= FloorOf(d) /\ score <= 100
               /\ (P > 100 /\ d = "architecture") => score = 50
               /\ (P > 100 /\ d = "security") => score = 0

C10_SecurityOverloaded ==
    /\ sc.pc = "done"
    /\ PenaltyTotal(sc.analysis["security"].issues) > 100
    /\ sc.analysis["security"].score = 0

----------------------------------------------------------------------------
(* Claims about the incremental review *)

\* the rows of the reviewed fileKey and, when there are any, the latest
PreviousRows ==
    {n \in 1..Len(fileVersions) : fileVersions[n].fileKey = inc.fileKey}

HasStoredVersion == PreviousRows # {}

LatestStored ==
    fileVersions[CHOOSE n \in PreviousRows :
                    \A m \in PreviousRows :
                        fileVersions[m].version <= fileVersions[n].version]

CurrentReadable == blob[inc.fileKey] # NoBlob

\* the changed lines between the latest stored content and the current one
ExpectedChanges ==
    getChangedLines(calculateDiff(LatestStored.content, blob[inc.fileKey]))

\* the issues of the current content within two lines of a changed line
ExpectedIssues ==
    SelectSeq(analyzeCode(blob[inc.fileKey], inc.fileName).issues,
              LAMBDA issue :
                  \E n \in 1..Len(ExpectedChanges) :
                      issue.line - ExpectedChanges[n].lineNumber \in (-2)..2)

ZeroDelta == [linesChanged |-> 0, linesAdded |-> 0, linesDeleted |-> 0,
              issuesFound |-> 0]

NothingDone == inc.diffs = 0 /\ inc.analyses = 0 /\ reviews = <<>>

\* C4 as stated: with no stored version of the fileKey the review ends in
\* requiresFullReview, with no diff, no analysis and no write.
C4_NoVersionEndsInFullReview ==
    (inc.pc = "done" /\ ~HasStoredVersion) =>
        inc.response.outcome = "requiresFullReview" /\ NothingDone

\* C4 as amended: with no stored version of the fileKey the review ends in
\* requiresFullReview when the current content can be read and in an error
\* when it cannot; either way there is no diff, no analysis, no Review write
\* and no Version write.
C4_NoVersionNoFurtherAction ==
    /\ [](((inc.pc = "done" /\ ~HasStoredVersion) =>
            /\ inc.response.outcome =
                   (IF CurrentReadable THEN "requiresFullReview" ELSE "error")
            /\ NothingDone))
    /\ [][fileVersions' = fileVersions]_vars

C4_FullReviewRequired ==
    /\ inc.pc = "done"
    /\ ~HasStoredVersion
    /\ Len(fileVersions) > 0
    /\ inc.response.outcome = "requiresFullReview"

\* C5: with a stored version whose content has no changed line against the
\* current content the review ends in noChanges: no issue, no changed line,
\* all four incremental metrics 0, the analyzer not run, no Review written.
C5_NoChangesShortCircuits ==
    (inc.pc = "done" /\ HasStoredVersion /\ CurrentReadable
        /\ ExpectedChanges = <<>>) =>
        /\ inc.response.outcome = "noChanges"
        /\ inc.response.issues = <<>>
        /\ inc.response.changedLines = <<>>
        /\ inc.response.metrics.incrementalData = ZeroDelta
        /\ inc.analyses = 0
        /\ reviews = <<>>

C5_NoChangesAfterSeveralVersions ==
    /\ inc.pc = "done"
    /\ Cardinality(PreviousRows) >= 2
    /\ inc.response.outcome = "noChanges"

C8_OneIncrementalReview ==
    (inc.pc = "done" /\ HasStoredVersion /\ CurrentReadable
        /\ ExpectedChanges # <<>>) =>
        /\ Len(reviews) = 1
        /\ reviews[1].reviewType = "incremental"
        /\ reviews[1].fileVersionId = LatestStored.id
        /\ reviews[1].issues = ExpectedIssues
        /\ reviews[1].linesReviewed = ExpectedChanges
        /\ inc.diffs = 1
        /\ LET data == reviews[1].metrics.incrementalData
           IN /\ data.issuesFound = Len(ExpectedIssues)
              /\ data.linesChanged = Len(ExpectedChanges)
              /\ data.linesAdded + data.linesDeleted <= data.linesChanged

\* s is t with some elements left out, the others in their order
RECURSIVE IsSubList(_, _)
IsSubList(s, t) ==
    IF s = <<>> THEN TRUE
    ELSE IF t = <<>> THEN FALSE
    ELSE IF Head(s) = Head(t) THEN IsSubList(Tail(s), Tail(t))
    ELSE IsSubList(s, Tail(t))

----------------------------------------------------------------------------
(* Claims about the multi-dimensional analyzer *)

\* the orders in which the five passes can be made
PassOrders ==
    {o \in [1..5 -> Dimensions] : \A d \in Dimensions : \E n \in 1..5 : o[n] = d}

PassOf(dimension, analysis, content, fileExtension) ==
    CASE dimension = "linting" -> LintingPass(analysis, content, fileExtension)
      [] dimension = "security" ->
             SecurityPass(analysis, content, fileExtension)
      [] dimension = "architecture" ->
             ArchitecturePass(analysis, content, fileExtension)
      [] dimension = "quality" -> QualityPass(analysis, content, fileExtension)
      [] dimension = "documentation" ->
             DocumentationPass(analysis, content, fileExtension)

\* the analysis object after the passes of an order, from its n-th on
RECURSIVE PassesFrom(_, _, _, _, _)
PassesFrom(order, n, analysis, content, fileExtension) ==
    IF n > Len(order) THEN analysis
    ELSE PassesFrom(order, n + 1,
                    PassOf(order[n], analysis, content, fileExtension),
                    content, fileExtension)

\* C11: the unified issue list is the linting, security, architecture,
\* quality and documentation issues of the content, in this order and each
\* list in its pass's order, and the five passes made in any order on a fresh
\* analysis object leave the same five lists.
C11_ConcatenationInFixedOrder ==
    md.pc = "done" =>
        /\ md.analysis.issues =
               performLintingAnalysis(md.content, ExtensionOf(md.fileName))
               \o performSecurityAnalysis(md.content, ExtensionOf(md.fileName))
               \o performArchitectureAnalysis(md.content)
               \o performQualityAnalysis(md.content)
               \o performDocumentationAnalysis(md.content,
                                               ExtensionOf(md.fileName))
        /\ \A o \in PassOrders :
               LET after == PassesFrom(o, 1, InitialAnalysis, md.content,
                                       ExtensionOf(md.fileName))
               IN \A d \in Dimensions :
                      after[d].issues = md.analysis[d].issues

C11_FourDimensionsReport ==
    /\ md.pc = "done"
    /\ \A d \in Dimensions \ {"documentation"} : md.analysis[d].issues # <<>>
    /\ Len(md.analysis.linting.issues) >= 2

\* the syntax issues among the issues the run returns
SyntaxIssuesReturned ==
    SelectSeq(md.analysis.issues, LAMBDA issue : issue.category = "syntax")

ParsedAsJavaScript == ExtensionOf(md.fileName) \in {"js", "jsx", "ts", "tsx"}

\* C12: when the parse of the syntax validation throws, the run still ends
\* with the metrics and the other checks' issues, and its issues hold exactly
\* one syntax issue, of severity error or critical, at the line the parser
\* reported if it reported one.
C12_ThrowBecomesOneIssue ==
    (md.pc = "done" /\ ParsedAsJavaScript /\ acornParse(md.content, 1).threw)
        => /\ md.analysis.metrics.totalLines = Len(md.content)
           /\ Len(SyntaxIssuesReturned) = 1
           /\ SyntaxIssuesReturned[1].severity \in {"error", "critical"}
           /\ acornParse(md.content, 1).hasLoc =>
                  SyntaxIssuesReturned[1].line = acornParse(md.content, 1).line

\* "var x = 1\nif (x == 1) { console.log(x) }\n" analysed as a.js
EndToEndRun ==
    /\ md.pc = "done"
    /\ md.content = <<VarLine, BranchLine, EmptyLine>>
    /\ md.fileName = "a.js"

HasIssue(category, message, line) ==
    \E n \in 1..Len(md.analysis.issues) :
        /\ md.analysis.issues[n].category = category
        /\ md.analysis.issues[n].message = message
        /\ md.analysis.issues[n].line = line

ThreeLintIssues ==
    /\ Len(md.analysis.issues) >= 3
    /\ HasIssue("best-practice", "Use of deprecated var keyword", 1)
    /\ HasIssue("best-practice", "Use of loose equality", 2)
    /\ HasIssue("cleanup", "Console statement detected", 2)

----------------------------------------------------------------------------
(* Claims about the routes around the version store *)

\* C13: no operation modifies or deletes an existing Version: every step of
\* every route leaves each row stored so far exactly as it is, at its place.
C13_VersionsAreNeverChanged ==
    [][/\ Len(fileVersions') >= Len(fileVersions)
       /\ \A i \in 1..Len(fileVersions) : fileVersions'[i] = fileVersions[i]
      ]_vars

\* a version that a later version of the same file has superseded is still
\* stored, after an editor's save and a folder analysis
C13_SupersededVersionKept ==
    /\ fa.pc = "answered"
    /\ \E i, j \in 1..Len(fileVersions) :
           /\ i < j
           /\ fileVersions[i].fileKey = fileVersions[j].fileKey
           /\ fileVersions[i].version < fileVersions[j].version

\* C14: getHistory returns all and only the versions of the fileKey, in
\* strictly descending version order, each entry carrying only id, version,
\* size, fingerprint (hash) and createdAt, never the content.
C14_HistoryIsExactDescendingAndLight ==
    [][(rq.pc = "none" /\ rq'.pc = "history") =>
          LET history == rq'.history
              rows == RowsOf(fileVersions, rq'.fileKey)
          IN /\ Len(history) = Len(rows)
             /\ {history[i].id : i \in 1..Len(history)}
                   = {rows[i].id : i \in 1..Len(rows)}
             /\ \A i \in 1..(Len(history) - 1) :
                    history[i].version > history[i + 1].version
             /\ \A i \in 1..Len(history) :
                    DOMAIN history[i]
                      = {"id", "version", "size", "hash", "createdAt"}
      ]_vars

\* C15: POST /api/file-version on a key with no stored version always creates
\* version 1 and answers changed = true, whatever the content that was
\* uploaded, the empty string included.
C15_FirstSaveCreatesVersionOne ==
    [][\A p \in Procs :
          (/\ call'[p] # call[p]
           /\ RowsOf(fileVersions, call[p].fileKey) = <<>>) =>
             /\ call[p].pc = "uploaded" => call'[p].pc = "fetched"
             /\ call[p].pc = "fetched" =>
                    call'[p].pc = "create" /\ call'[p].newVersion = 1
             /\ call[p].pc = "create" =>
                    /\ lastResult' = [fileKey |-> call[p].fileKey,
                                      changed |-> TRUE, version |-> 1]
                    /\ Len(RowsOf(fileVersions', call[p].fileKey)) = 1
      ]_vars

\* C16: a storage failure during a folder analysis is propagated to the
\* caller as an error and aborts the operation: after storeFileVersion has
\* thrown, the loop does not go on to the next file and the route does not
\* answer with success.
C16_FailureAbortsFolderAnalysis ==
    /\ fa.pc = "files" => fa.thrown = {}
    /\ (fa.pc = "answered" /\ fa.status = 200) => fa.thrown = {}

\* C17: when two writers race on creating a version of one fileKey, the one
\* that loses retries once with a fresh read of the latest version: a call
\* that ends stores the version that follows the latest one stored at that
\* time, or finds its content stored already, or surfaces ConcurrencyConflict
\* after its retry conflicted as well.
C17_LoserRetriesWithFreshRead ==
    [][\A p \in Procs :
          (call[p].pc = "create" /\ call'[p].pc = "idle") =>
             LET latestVersion ==
                     getLatestFileVersion(fileVersions, call[p].fileKey)
             IN \/ /\ Len(fileVersions') = Len(fileVersions) + 1
                   /\ fileVersions'[Len(fileVersions')].version
                         = NewVersion(latestVersion)
                \/ /\ fileVersions' = fileVersions
                   /\ Unchanged(latestVersion,
                                generateContentHash(call[p].content))
                \/ /\ fileVersions' = fileVersions
                   /\ "error" \in DOMAIN lastResult'
                   /\ lastResult'.error = "ConcurrencyConflict"
      ]_vars

\* C18: every analysis run in which the analyzer is executed creates exactly
\* one Review record: a request to POST /api/code-review that is answered
\* with an analysis has added one row to the reviews, and no step changes or
\* removes a row of the reviews.
C18_FullReviewCreatesOneReview ==
    [][/\ (rq.pc = "none" /\ rq'.pc = "reviewed") =>
              Len(reviews') = Len(reviews) + 1
       /\ Len(reviews') >= Len(reviews)
       /\ \A i \in 1..Len(reviews) : reviews'[i] = reviews[i]
      ]_vars

\* C20: after the editors' saves have completed (each an upload followed by
\* POST /api/file-version), the content of the latest stored version of a
\* file equals the non-empty content its object holds, however the steps of
\* two saves of the file interleave.
C20_LatestVersionIsBlobContent ==
    (/\ \A p \in Procs : call[p].pc = "idle"
     /\ fa.pc = "none") =>
        \A k \in FileKeys :
            (blob[k] # NoBlob /\ blob[k] # <<EmptyLine>>) =>
                getLatestFileVersion(fileVersions, k).content = blob[k]

----------------------------------------------------------------------------
(* Claims about reviews after saves, metrics and scores *)

\* C21: when the saves of a file have completed and its object is not
\* written again, an incremental review of the file ends in noChanges with an
\* empty issue set and writes no Review.
C21_ReviewAfterSaveFindsNoChanges ==
    inc.pc = "done" =>
        /\ inc.response.outcome = "noChanges"
        /\ inc.response.issues = <<>>
        /\ reviews = <<>>

\* C22 (as stated): metrics.complexityScore is the number of branching
\* keywords in the content capped at 100, and metrics.maintainabilityIndex
\* lies in [0, 100].
C22_ComplexityIsCappedCount ==
    md.pc = "combine" =>
        /\ md.analysis.metrics.complexityScore
              = Min(CountBranchKeywords(md.content), 100)
        /\ md.analysis.metrics.maintainabilityIndex.num >= 0
        /\ md.analysis.metrics.maintainabilityIndex.num
              <= 100 * md.analysis.metrics.maintainabilityIndex.den

\* C22 (amended): metrics.complexityScore is twice the number of branching
\* keywords in the content, capped at 100, and metrics.maintainabilityIndex
\* lies in [0, 100].
C22_ComplexityIsCappedDoubleCount ==
    md.pc = "combine" =>
        /\ md.analysis.metrics.complexityScore
              = Min(2 * CountBranchKeywords(md.content), 100)
        /\ md.analysis.metrics.maintainabilityIndex.num >= 0
        /\ md.analysis.metrics.maintainabilityIndex.num
              <= 100 * md.analysis.metrics.maintainabilityIndex.den

\* the metrics of a content with more than fifty branching keywords, so long
\* that the index is cut off at 0
C22_CapAndFloorReached ==
    /\ md.pc = "combine"
    /\ 2 * CountBranchKeywords(md.content) > 100
    /\ md.analysis.metrics.complexityScore = 100
    /\ md.analysis.metrics.maintainabilityIndex.num = 0

\* C23 (as stated): each of the five dimensions of an analysis result carries
\* a score computed by the severity-penalty rule from the dimension's issues.
C23_FiveDimensionsScored ==
    md.pc = "done" =>
        \A d \in Dimensions :
            /\ "score" \in DOMAIN md.analysis[d]
            /\ md.analysis[d].score
                  = Max(FloorOf(d), 100 - PenaltyTotal(md.analysis[d].issues))

\* C23 (amended): the linting, security, architecture and quality dimensions
\* of an analysis result carry a score computed by the severity-penalty rule
\* from the dimension's own issues; the documentation dimension carries its
\* issues and suggestions and no score.
C23_FourDimensionsScored ==
    md.pc = "done" =>
        /\ \A d \in ScoredDimensions :
               md.analysis[d].score
                 = Max(FloorOf(d), 100 - PenaltyTotal(md.analysis[d].issues))
        /\ DOMAIN md.analysis.documentation = {"issues", "suggestions"}

\* a result with issues in the linting, the security and the documentation
\* dimension
C23_SeveralDimensionsPenalised ==
    /\ md.pc = "done"
    /\ md.analysis.linting.score < 100
    /\ md.analysis.security.score < 100
    /\ md.analysis.quality.score < 100
    /\ md.analysis.documentation.issues # <<>>

----------------------------------------------------------------------------
(* Claims about the history, the folder analysis, ownership and overwriting *)

\* C25: in every answer of GET /api/file-version, stats.totalVersions equals
\* the number of entries of history and the version number of history[0],
\* also when a storeFileVersion of the same fileKey runs between the two
\* reads of the handler. (Stated for histories whose version numbers are all
\* different.)
C25_StatsAgreeWithHistory ==
    (/\ rq.pc = "answered"
     /\ rq.history # <<>>
     /\ \A i \in 1..(Len(rq.history) - 1) :
            rq.history[i].version > rq.history[i + 1].version) =>
        /\ rq.stats.totalVersions = Len(rq.history)
        /\ rq.stats.totalVersions = rq.history[1].version

\* C26: at the end of every folder analysis analyzedFiles + skippedFiles =
\* totalFiles and passedFiles + failedFiles = analyzedFiles = the number of
\* entries of files, whichever of the files' turns threw.
C26_FolderCountsAddUp ==
    (fa.pc = "answered" /\ fa.status = 200) =>
        /\ fa.analyzedFiles + fa.skippedFiles = fa.totalFiles
        /\ fa.passedFiles + fa.failedFiles = fa.analyzedFiles
        /\ fa.analyzedFiles = Len(fa.files)

\* an answer after one file was analysed and the turn of another threw
C26_OneAnalysedOneSkipped ==
    /\ fa.pc = "answered"
    /\ fa.status = 200
    /\ fa.analyzedFiles = 1
    /\ fa.skippedFiles = 1
    /\ fa.thrown # {}

\* C27: in a folder analysis a file's quality score lies in [0, 10] (here in
\* tenths), the file counts as passed exactly when the score is greater than
\* 8 and as failed exactly when it is 8 or less, and a file with a critical
\* issue or an issue of the security dimension never counts as passed.
C27_PassedOnlyAboveEightAndClean ==
    fa.pc \in {"files", "answered"} /\ "results" \in DOMAIN fa =>
        /\ \A i \in 1..Len(fa.results) :
               LET file == fa.results[i]
               IN /\ file.qualityScore \in 0..100
                  /\ file.isPassed <=> file.qualityScore > 80
                  /\ (\/ CountSeverity(file.issues, "critical") > 0
                      \/ file.securityIssues > 0) => ~file.isPassed
        /\ fa.passedFiles
             = Cardinality({i \in 1..Len(fa.results) : fa.results[i].isPassed})
        /\ fa.failedFiles
             = Cardinality({i \in 1..Len(fa.results) : ~fa.results[i].isPassed})

\* a file with a critical security issue failed with a score of 0, beside a
\* file that passed
C27_FailedAtZeroBesidePassed ==
    /\ fa.pc = "files"
    /\ \E i, j \in 1..Len(fa.results) :
           /\ fa.results[i].qualityScore = 0
           /\ fa.results[i].securityIssues > 0
           /\ ~fa.results[i].isPassed
           /\ fa.results[j].isPassed

\* C28: a folder analysis reads, analyses and versions only objects whose key
\* lies under the caller's own '<user.id>/' segment, for every folderPath and
\* every pair of user ids, one being a prefix of the other included.
C28_OnlyOwnFilesListed ==
    fa.pc = "listed" =>
        \A key \in fa.analysisFiles :
            startsWith(key, fa.userId \o <<"/">>)

\* C29: a stored version's content is disclosed, as content or as a diff, only
\* to the caller whose user id is the version's userId: any other caller gets
\* status 403 and neither a content nor a diff from either route.
C29_VersionDisclosedToOwnerOnly ==
    (rq.pc = "version"
        /\ getFileVersion(fileVersions, rq.id) # NoVersion
        /\ getFileVersion(fileVersions, rq.id).userId # rq.userId)
    => /\ rq.status = 403
       /\ "content" \notin DOMAIN rq
       /\ "diff" \notin DOMAIN rq

\* C30: when a step of the overwrite flow has failed (the delete, the upload
\* URL or the upload), the original file is still in storage: the old file is
\* gone only where the replacement has been uploaded.
C30_FailedOverwriteKeepsOriginal ==
    (rq.pc = "failed" /\ "newFile" \in DOMAIN rq) => blob[rq.key] # NoBlob

====
